---- MODULE Spec2Model ----
(***************************************************************************)
(* The shopping-cart subtotal / tax calculator of the node-testing         *)
(* tutorial: CartSummary (getSubtotal, getTax), the tax module             *)
(* (tax.calculate), the sinon stub of the part 1 test suite and the HTTP   *)
(* transport (the `request` library) that completes each outbound request  *)
(* once, with an error or with a response.                                 *)
(***************************************************************************)
EXTENDS Integers, Sequences, FiniteSets, TLC

\* Bounds of the model.
MaxItems == 2
MaxQuantity == 2
MaxCalls == 3

VARIABLES
    items,      \* this._items of the one CartSummary under test
    array,      \* the array the caller handed to the constructor, as the caller sees it
    stubbed,    \* TRUE while sinon has replaced tax.calculate by the stub
    phase,      \* where mocha is in the CartSummary suite of part 1
    calls,      \* every invocation so far, with the events it has seen
    requests    \* every outbound request handed to request.post

vars == <<items, array, stubbed, phase, calls, requests>>

-----------------------------------------------------------------------------
(* JavaScript values.  An object is [t |-> "object", f |-> record of its    *)
(* properties].  A number is an IEEE-754 double; the doubles represented    *)
(* are the non-negative ones of the form hi * 2^53 + n: the integers below  *)
(* 2^53 (hi = 0, every one of them a double), and from 2^53 on the          *)
(* multiples of the spacing of doubles at that magnitude.                   *)

Undefined == [t |-> "undefined"]
NaN == [t |-> "NaN"]
TypeError == [t |-> "TypeError"]
Unrepresented == [t |-> "unrepresented"]
Num(n) == [t |-> "number", hi |-> 0, n |-> n]
\* 2^53 = 9007199254740992, the first double whose successor is 2 away.
Pow53 == [t |-> "number", hi |-> 1, n |-> 0]
Obj(f) == [t |-> "object", f |-> f]

IsNum(v) == v.t = "number"
IsObj(v) == v.t = "object"

\* The outcome of evaluating an expression: a value, or a thrown error.
Normal(v) == [threw |-> FALSE, value |-> v]
Throw(e) == [threw |-> TRUE, value |-> e]

\* The distance between neighbouring doubles in [hi * 2^53, (hi + 1) * 2^53).
RECURSIVE Spacing(_)
Spacing(hi) == IF hi <= 1 THEN 2 ELSE 2 * Spacing(hi \div 2)

\* n rounded to the nearest multiple of s, a tie going to the even multiple.
RoundTo(n, s) ==
    LET q == n \div s
        r == n % s
    IN IF 2 * r < s THEN q * s
       ELSE IF 2 * r > s THEN (q + 1) * s
       ELSE IF q % 2 = 0 THEN q * s ELSE (q + 1) * s

\* The double nearest to the real number hi * 2^53 + n (round to nearest,
\* ties to even): the result of one arithmetic operation.
Double(hi, n) ==
    [t |-> "number", hi |-> hi, n |-> IF hi = 0 THEN n ELSE RoundTo(n, Spacing(hi))]

\* a * b and a + b on numbers, undefined and NaN: the exact result, rounded
\* once.  A product of two values of 2^53 or more is not represented; no
\* quantity of the model is that large.
Mul(a, b) ==
    IF IsNum(a) /\ IsNum(b)
    THEN IF a.hi > 0 /\ b.hi > 0 THEN Unrepresented
         ELSE Double(a.hi * b.n + a.n * b.hi, a.n * b.n)
    ELSE NaN
Add(a, b) ==
    IF IsNum(a) /\ IsNum(b) THEN Double(a.hi + b.hi, a.n + b.n) ELSE NaN

\* v.name: a TypeError on undefined, undefined when the property is absent.
GetProp(v, name) ==
    IF IsObj(v)
    THEN Normal(IF name \in DOMAIN v.f THEN v.f[name] ELSE Undefined)
    ELSE IF v = Undefined THEN Throw(TypeError) ELSE Normal(Undefined)

-----------------------------------------------------------------------------
(* CartSummary.getSubtotal                                                  *)

\* Mutant: the callback assigns (=) where the code accumulates (+=).
RECURSIVE reduceAssign(_, _)
reduceAssign(its, subtotal) ==
    IF its = <<>> THEN subtotal
    ELSE reduceAssign(Tail(its), Mul(Head(its).quantity, Head(its).price))

\* Mutant: items are first indexed by id, so of two items with one id only
\* the later one is counted.
RECURSIVE reduceById(_, _)
reduceById(its, subtotal) ==
    IF its = <<>> THEN subtotal
    ELSE IF \E k \in 2..Len(its) : its[k].id = Head(its).id
    THEN reduceById(Tail(its), subtotal)
    ELSE reduceById(Tail(its), Add(subtotal, Mul(Head(its).quantity, Head(its).price)))

\* Array.prototype.reduce with the callback of getSubtotal, from the left.
RECURSIVE reduce(_, _)
reduce(its, subtotal) ==
    IF its = <<>> THEN subtotal
    ELSE reduce(Tail(its), Add(subtotal, Mul(Head(its).quantity, Head(its).price)))

\* Mutant: no length guard and no initial value, so reduce throws on [].
getSubtotalNoInitialValue(its) ==
    IF Len(its) = 0 THEN Throw(TypeError)
    ELSE Normal(reduce(its, Num(0)))

getSubtotal(its) ==
    IF Len(its) # 0 THEN Normal(reduce(its, Num(0))) ELSE Normal(Num(0))

-----------------------------------------------------------------------------
(* Invocations, their events, and outbound requests.                        *)

TaxServiceUrl == "https://some-tax-service.com/request"
ExactorUrl == "https://taxrequest.exactor.com/request/json"

\* The callback an invocation was given: the caller's own (User), or the
\* function(taxInfo) that getTax of part 1 hands to tax.calculate.
User == [k |-> "user", of |-> 0]
Inner(p) == [k |-> "inner", of |-> p]

Event(e, v) == [e |-> e, v |-> v]

Invocation(op, subtotal, state, cb) ==
    [op |-> op, subtotal |-> subtotal, state |-> state, cb |-> cb, log |-> <<>>]

\* w is the pair [calls, requests] a handler works on.
Log(w, i, e, v) ==
    [w EXCEPT !.calls[i].log = Append(@, Event(e, v))]

Enter(w, inv) == [w EXCEPT !.calls = Append(@, inv)]

\* The arguments invocation i's callback has been invoked with, in order.
DoneArgs(cs, i) ==
    LET d == SelectSeq(cs[i].log, LAMBDA ev : ev.e = "done")
    IN [k \in 1..Len(d) |-> d[k].v]

Has(cs, i, e) == \E k \in 1..Len(cs[i].log) : cs[i].log[k].e = e

\* request.post(options, callback): the request is handed to the transport.
Post(w, i, url, subtotal, handler) ==
    LET r == Len(w.requests) + 1
        w1 == [w EXCEPT !.requests = Append(@,
                 [url |-> url, method |-> "POST",
                  json |-> Obj([subtotal |-> subtotal]),
                  owner |-> i, handler |-> handler, status |-> "pending",
                  error |-> FALSE, statusCode |-> 0, body |-> Undefined])]
    IN Log(w1, i, "request", Num(r))

-----------------------------------------------------------------------------
(* CartSummary.getTax of part 1: function(taxInfo) { done(taxInfo.amount) } *)

getTaxInner(w, p, taxInfo) ==
    LET amount == GetProp(taxInfo, "amount")
    IN IF amount.threw THEN Log(w, p, "throw", amount.value)
       ELSE Log(w, p, "done", amount.value)

\* The revised getTax(done) of article 2: function(taxInfo) { done(taxInfo.tax) }
InnerTax(p) == [k |-> "innerTax", of |-> p]

getTaxRevisedInner(w, p, taxInfo) ==
    LET tax == GetProp(taxInfo, "tax")
    IN IF tax.threw THEN Log(w, p, "throw", tax.value)
       ELSE Log(w, p, "done", tax.value)

\* Invocation i's callback is invoked with v.
Deliver(w, i, v) ==
    LET w1 == Log(w, i, "done", v)
        cb == w.calls[i].cb
    IN IF cb.k = "inner" THEN getTaxInner(w1, cb.of, v)
       ELSE IF cb.k = "innerTax" THEN getTaxRevisedInner(w1, cb.of, v)
       ELSE w1

-----------------------------------------------------------------------------
(* tax.calculate                                                            *)

\* Mutant: no short circuit, every state is sent to the tax service.
calculateNoShortCircuit(w, i) ==
    Log(Post(w, i, TaxServiceUrl, w.calls[i].subtotal, "calculate"),
        i, "return", Undefined)

\* Mutant: a hardcoded subtotal in the request body.
calculateHardcoded(w, i) ==
    IF w.calls[i].state # "CA"
    THEN Log(Deliver(w, i, Obj([amount |-> Num(0)])), i, "return", Undefined)
    ELSE Log(Post(w, i, TaxServiceUrl, Num(0), "calculate"),
             i, "return", Undefined)

\* Mutant: done is called right after request.post, not in its callback.
calculateEager(w, i) ==
    IF w.calls[i].state # "CA"
    THEN Log(Deliver(w, i, Obj([amount |-> Num(0)])), i, "return", Undefined)
    ELSE Log(Deliver(Post(w, i, TaxServiceUrl, w.calls[i].subtotal, "calculate"),
                     i, Undefined),
             i, "return", Undefined)

calculate(w, i) ==
    IF w.calls[i].state # "CA"
    THEN Log(Deliver(w, i, Obj([amount |-> Num(0)])), i, "return", Undefined)
    ELSE Log(Post(w, i, TaxServiceUrl, w.calls[i].subtotal, "calculate"),
             i, "return", Undefined)

\* Mutant: passes body.amount where the code passes body.
calculateCallbackAmount(w, r) ==
    LET amount == GetProp(w.requests[r].body, "amount")
    IN IF amount.threw THEN Log(w, w.requests[r].owner, "throw", amount.value)
       ELSE Deliver(w, w.requests[r].owner, amount.value)

\* Mutant: the guard of the direct-HTTP getTax copied into tax.calculate.
calculateCallbackGuarded(w, r) ==
    IF ~w.requests[r].error /\ w.requests[r].statusCode = 200
    THEN Deliver(w, w.requests[r].owner, w.requests[r].body)
    ELSE w

\* Mutant: done is kept in a variable of the module, which every call of
\* calculate overwrites, so a response goes to the latest caller.
calculateCallbackShared(w, r) ==
    LET latest == CHOOSE i \in 1..Len(w.calls) :
                     /\ w.calls[i].op = "calculate" /\ w.calls[i].state = "CA"
                     /\ \A j \in (i + 1)..Len(w.calls) :
                          ~(w.calls[j].op = "calculate" /\ w.calls[j].state = "CA")
    IN Deliver(w, latest, w.requests[r].body)

\* function(error, response, body) { done(body); }
calculateCallback(w, r) == Deliver(w, w.requests[r].owner, w.requests[r].body)

\* The sinon stub of the part 1 suite: setTimeout(function() { done(...) }, 0)
stubCalculate(w, i) ==
    Log(Log(w, i, "timer", Undefined), i, "return", Undefined)

stubTimeout(w, i) == Deliver(w, i, Obj([amount |-> Num(30)]))

-----------------------------------------------------------------------------
(* CartSummary.getTax, direct-HTTP version (src/cart-summary.js)            *)

\* Mutant: a hardcoded subtotal in the request body.
getTaxHardcoded(w, i, its) ==
    Log(Post(w, i, ExactorUrl, Num(0), "getTax"), i, "return", Undefined)

\* Mutant: an empty cart is sent to the endpoint of the tax module.
getTaxUrlBySubtotal(w, i, its) ==
    LET subtotal == getSubtotal(its)
    IN IF subtotal.threw THEN Log(w, i, "throw", subtotal.value)
       ELSE Log(Post(w, i, IF its = <<>> THEN TaxServiceUrl ELSE ExactorUrl,
                     subtotal.value, "getTax"),
                i, "return", Undefined)

getTax(w, i, its) ==
    LET subtotal == getSubtotal(its)
    IN IF subtotal.threw THEN Log(w, i, "throw", subtotal.value)
       ELSE Log(Post(w, i, ExactorUrl, subtotal.value, "getTax"),
                i, "return", Undefined)

\* Mutant: passes body.amount where the code passes body.tax.
getTaxCallbackAmount(w, r) ==
    LET q == w.requests[r]
        amount == GetProp(q.body, "amount")
    IN IF ~q.error /\ q.statusCode = 200
       THEN IF amount.threw THEN Log(w, q.owner, "throw", amount.value)
            ELSE Deliver(w, q.owner, amount.value)
       ELSE w

\* Mutant: the status code is not checked.
getTaxCallbackAnyStatus(w, r) ==
    LET q == w.requests[r]
        tax == GetProp(q.body, "tax")
    IN IF ~q.error
       THEN IF tax.threw THEN Log(w, q.owner, "throw", tax.value)
            ELSE Deliver(w, q.owner, tax.value)
       ELSE w

\* Mutant: the request is issued again when it has failed.
getTaxCallbackRetry(w, r) ==
    LET q == w.requests[r]
        tax == GetProp(q.body, "tax")
    IN IF ~q.error /\ q.statusCode = 200
       THEN IF tax.threw THEN Log(w, q.owner, "throw", tax.value)
            ELSE Deliver(w, q.owner, tax.value)
       ELSE Post(w, q.owner, ExactorUrl, q.json.f.subtotal, "getTax")

\* function(error, response, body) {
\*   if (!error && response.statusCode == 200) { done(body.tax); } }
getTaxCallback(w, r) ==
    LET q == w.requests[r]
        tax == GetProp(q.body, "tax")
    IN IF ~q.error /\ q.statusCode = 200
       THEN IF tax.threw THEN Log(w, q.owner, "throw", tax.value)
            ELSE Deliver(w, q.owner, tax.value)
       ELSE w

-----------------------------------------------------------------------------
(* CartSummary.getTax of part 1 (state, done): delegates to tax.calculate,  *)
(* which is the stub while stubbed and the tax module's own otherwise.      *)

\* Mutant: hardcoded subtotal and state handed to tax.calculate.
getTaxPart1Hardcoded(w, p, its, st) ==
    LET i == Len(w.calls) + 1
        w1 == Enter(w, Invocation(IF st THEN "stub" ELSE "calculate",
                                  Num(300), "NY", Inner(p)))
        w2 == IF st THEN stubCalculate(w1, i) ELSE calculate(w1, i)
    IN Log(w2, p, "return", Undefined)

getTaxPart1(w, p, its, st) ==
    LET subtotal == getSubtotal(its)
        i == Len(w.calls) + 1
        w1 == Enter(w, Invocation(IF st THEN "stub" ELSE "calculate",
                                  subtotal.value, w.calls[p].state, Inner(p)))
        w2 == IF st THEN stubCalculate(w1, i) ELSE calculate(w1, i)
    IN IF subtotal.threw THEN Log(w, p, "throw", subtotal.value)
       ELSE IF Has(w2.calls, p, "throw") THEN w2
       ELSE Log(w2, p, "return", Undefined)

-----------------------------------------------------------------------------
(* The listings of article 2: getTax(done) issuing the request itself,      *)
(* tax.calculate(subtotal, done), and getTax(done) revised to delegate.     *)

getTaxDirect(w, i, its) ==
    LET subtotal == getSubtotal(its)
    IN IF subtotal.threw THEN Log(w, i, "throw", subtotal.value)
       ELSE Log(Post(w, i, TaxServiceUrl, subtotal.value, "getTaxDirect"),
                i, "return", Undefined)

\* function(error, response, body) {
\*   if (!error && response.statusCode === 200) { done(body.tax); } }
getTaxDirectCallback(w, r) ==
    LET q == w.requests[r]
        tax == GetProp(q.body, "tax")
    IN IF ~q.error /\ q.statusCode = 200
       THEN IF tax.threw THEN Log(w, q.owner, "throw", tax.value)
            ELSE Deliver(w, q.owner, tax.value)
       ELSE w

calculateArticle2(w, i) ==
    Log(Post(w, i, TaxServiceUrl, w.calls[i].subtotal, "calculateArticle2"),
        i, "return", Undefined)

\* Mutant: the guard is left out, as in the tax module of part 2.
calculateArticle2CallbackUnguarded(w, r) ==
    Deliver(w, w.requests[r].owner, w.requests[r].body)

\* function(error, response, body) {
\*   if (!error && response.statusCode === 200) { done(body); } }
calculateArticle2Callback(w, r) ==
    LET q == w.requests[r]
    IN IF ~q.error /\ q.statusCode = 200 THEN Deliver(w, q.owner, q.body) ELSE w

getTaxRevised(w, p, its) ==
    LET subtotal == getSubtotal(its)
        i == Len(w.calls) + 1
        w1 == Enter(w, Invocation("calculateArticle2", subtotal.value, "", InnerTax(p)))
    IN IF subtotal.threw THEN Log(w, p, "throw", subtotal.value)
       ELSE Log(calculateArticle2(w1, i), p, "return", Undefined)

-----------------------------------------------------------------------------
(* The inputs the model draws from.                                         *)

ItemIds == {1, 2}
Quantities == {Num(q) : q \in 0..MaxQuantity} \cup {Undefined}
Prices == {Num(0), Num(1), Num(30), Pow53, Undefined}
Items == [id : ItemIds, quantity : Quantities, price : Prices]

RECURSIVE Lists(_, _)
Lists(S, n) ==
    IF n = 0 THEN {<<>>}
    ELSE Lists(S, n - 1) \cup
         {Append(l, x) : l \in {m \in Lists(S, n - 1) : Len(m) = n - 1}, x \in S}

\* The cart of the test suites: subtotal 300.
ScenarioA ==
    << [id |-> 1, quantity |-> Num(4), price |-> Num(50)],
       [id |-> 2, quantity |-> Num(2), price |-> Num(30)],
       [id |-> 3, quantity |-> Num(1), price |-> Num(40)] >>

\* Three items whose subtotal depends on their order: (2^53 + 1) + 1 is
\* 2^53 in doubles, (1 + 1) + 2^53 is 2^53 + 2.
ScenarioRounding ==
    << [id |-> 1, quantity |-> Num(1), price |-> Pow53],
       [id |-> 2, quantity |-> Num(1), price |-> Num(1)],
       [id |-> 3, quantity |-> Num(1), price |-> Num(1)] >>

Carts == Lists(Items, MaxItems) \cup {ScenarioA, ScenarioRounding}
TestCarts == {<<>>, ScenarioA}

Subtotals == {Num(0), Num(100)}
States == {"CA", "NY", "ca"}

\* subtotal * 0.10, as the nock replies of the test suites compute it.
\* (Exact for the subtotals of the model's requests: multiples of 10 below 2^53.)
Tenth(v) == IF IsNum(v) /\ v.hi = 0 THEN Num(v.n \div 10) ELSE NaN

\* What the transport can hand to the callback of request q: a transport
\* error (no response, no body), or a response with a status and a body.
Bodies(q) ==
    LET subtotal == q.json.f.subtotal
    IN IF q.handler = "calculate"
       THEN {Obj([amount |-> Num(7)]), Obj([amount |-> Tenth(subtotal)]), Undefined}
       ELSE {Obj([tax |-> Tenth(subtotal)]), Obj([amount |-> Num(7)]), Undefined}

Outcomes(q) ==
    {[error |-> TRUE, statusCode |-> 0, body |-> Undefined]} \cup
    {[error |-> FALSE, statusCode |-> 200, body |-> b] : b \in Bodies(q)} \cup
    {[error |-> FALSE, statusCode |-> 500, body |-> Obj([amount |-> Num(7), tax |-> Num(7)])]}

-----------------------------------------------------------------------------
(* Actions: one per call a caller makes, and one per callback the event     *)
(* loop runs.                                                               *)

World == [calls |-> calls, requests |-> requests]
Commit(w) == calls' = w.calls /\ requests' = w.requests

\* new CartSummary(items): the array is kept as given.
CartSummary(its) ==
    /\ array = its
    /\ items = array
    /\ stubbed = FALSE
    /\ phase = "idle"
    /\ calls = <<>>
    /\ requests = <<>>

\* Mutant: the items are summed by taking them off the array.
GetSubtotalDraining ==
    /\ Len(calls) < MaxCalls
    /\ LET i == Len(calls) + 1
           w == Enter(World, Invocation("getSubtotal", Undefined, "", User))
           subtotal == getSubtotal(items)
       IN Commit(Log(w, i, IF subtotal.threw THEN "throw" ELSE "return",
                     subtotal.value))
    /\ items' = <<>>
    /\ array' = <<>>
    /\ UNCHANGED <<stubbed, phase>>

GetSubtotal ==
    /\ Len(calls) < MaxCalls
    /\ LET i == Len(calls) + 1
           w == Enter(World, Invocation("getSubtotal", Undefined, "", User))
           subtotal == getSubtotal(items)
       IN Commit(Log(w, i, IF subtotal.threw THEN "throw" ELSE "return",
                     subtotal.value))
    /\ UNCHANGED <<items, array, stubbed, phase>>

Calculate ==
    /\ Len(calls) < MaxCalls
    /\ \E subtotal \in Subtotals, state \in States :
         Commit(calculate(Enter(World, Invocation("calculate", subtotal, state, User)),
                          Len(calls) + 1))
    /\ UNCHANGED <<items, array, stubbed, phase>>

\* Mutant: getTax takes the items off the array while it sums them.
GetTaxDraining ==
    /\ Len(calls) < MaxCalls
    /\ Commit(getTax(Enter(World, Invocation("getTax", Undefined, "", User)),
                     Len(calls) + 1, items))
    /\ items' = <<>>
    /\ array' = <<>>
    /\ UNCHANGED <<stubbed, phase>>

GetTax ==
    /\ Len(calls) < MaxCalls
    /\ Commit(getTax(Enter(World, Invocation("getTax", Undefined, "", User)),
                     Len(calls) + 1, items))
    /\ UNCHANGED <<items, array, stubbed, phase>>

GetTaxPart1 ==
    /\ Len(calls) + 1 < MaxCalls
    /\ \E state \in States :
         Commit(getTaxPart1(Enter(World, Invocation("getTaxPart1", Undefined, state, User)),
                            Len(calls) + 1, items, stubbed))
    /\ UNCHANGED <<items, array, stubbed, phase>>

\* The transport completes the pending request r and runs its callback.
RespondTo(r) ==
    /\ r \in 1..Len(requests)
    /\ requests[r].status = "pending"
    /\ \E o \in Outcomes(requests[r]) :
         LET w1 == [World EXCEPT !.requests[r] =
                      [@ EXCEPT !.status = "completed", !.error = o.error,
                                !.statusCode = o.statusCode, !.body = o.body]]
             w2 == Log(w1, requests[r].owner, "response", Num(r))
         IN Commit(IF requests[r].handler = "calculate"
                   THEN calculateCallback(w2, r)
                   ELSE getTaxCallback(w2, r))
    /\ UNCHANGED <<items, array, stubbed, phase>>

Respond == \E r \in 1..Len(requests) : RespondTo(r)

\* The timer the stub set fires.
Timeout ==
    /\ \E i \in 1..Len(calls) :
         /\ calls[i].op = "stub"
         /\ Has(calls, i, "timer")
         /\ ~Has(calls, i, "done")
         /\ Commit(stubTimeout(World, i))
    /\ UNCHANGED <<items, array, stubbed, phase>>

\* Mocha runs the suite's beforeEach hook before each of its tests and its
\* afterEach hook after each of them, whether the test passed or not; a hook
\* that throws ends the suite ("failed").
\* beforeEach: sinon.stub(tax, 'calculate', ...), which throws when
\* tax.calculate is already wrapped.
BeforeEach ==
    /\ phase = "idle"
    /\ IF stubbed
       THEN phase' = "failed" /\ UNCHANGED stubbed
       ELSE phase' = "test" /\ stubbed' = TRUE
    /\ UNCHANGED <<items, array, calls, requests>>

\* Mutant: an afterEach hook that restores nothing.
AfterEachNoRestore ==
    /\ phase = "test"
    /\ phase' = "idle"
    /\ UNCHANGED <<items, array, stubbed, calls, requests>>

\* afterEach: tax.calculate.restore(); the original function has no restore
\* property, so the call throws when tax.calculate is not wrapped.
AfterEach ==
    /\ phase = "test"
    /\ IF stubbed
       THEN phase' = "idle" /\ stubbed' = FALSE
       ELSE phase' = "failed" /\ UNCHANGED stubbed
    /\ UNCHANGED <<items, array, calls, requests>>

Init == \E its \in TestCarts : CartSummary(its)

Next ==
    \/ GetSubtotal
    \/ Calculate
    \/ GetTax
    \/ GetTaxPart1
    \/ Respond
    \/ Timeout
    \/ BeforeEach
    \/ AfterEach

Spec == Init /\ [][Next]_vars

\* The cart alone: every bounded item list, and getSubtotal applied to it.
InitCart == \E its \in Carts : CartSummary(its)

NextCart == GetSubtotal

SpecCart == InitCart /\ [][NextCart]_vars

\* A fair transport: a request that is pending is eventually completed, with
\* a response or with an error.
FairTransport == \A r \in 1..MaxCalls : WF_vars(RespondTo(r))

\* The tax module alone with its transport, the transport being fair.
NextTax ==
    \/ Calculate
    \/ Respond

InitTax == CartSummary(<<>>)

SpecTaxFair == InitTax /\ [][NextTax]_vars /\ FairTransport

\* The caller keeps the array it handed to the constructor and changes it:
\* items.push(item), items.pop(), items[0].quantity = 2.
PushedItem == [id |-> 3, quantity |-> Num(1), price |-> Num(40)]

Mutations(arr) ==
    (IF Len(arr) < MaxItems THEN {Append(arr, PushedItem)} ELSE {}) \cup
    (IF Len(arr) > 0 THEN {SubSeq(arr, 1, Len(arr) - 1)} ELSE {}) \cup
    (IF Len(arr) > 0 THEN {[arr EXCEPT ![1].quantity = Num(2)]} ELSE {})

\* Mutant: the constructor stores a copy, this._items = items.slice().
StoredCopy(arr, its) == its

\* this._items = items: the field and the caller's variable designate one
\* array, so the cart's items are whatever the caller's array arr holds.
Stored(arr, its) == arr

Mutate ==
    /\ \E new \in Mutations(array) :
         /\ new # array
         /\ array' = new
         /\ items' = Stored(new, items)
    /\ UNCHANGED <<stubbed, phase, calls, requests>>

InitCaller == CartSummary(<<>>)

NextCaller ==
    \/ GetSubtotal
    \/ GetTax
    \/ Mutate

SpecCaller == InitCaller /\ [][NextCaller]_vars

\* The two getTax(done) of article 2 side by side: both are called on the
\* same cart, and the transport gives both requests the same outcome.
Complete(w, r, o) ==
    Log([w EXCEPT !.requests[r] =
           [@ EXCEPT !.status = "completed", !.error = o.error,
                     !.statusCode = o.statusCode, !.body = o.body]],
        w.requests[r].owner, "response", Num(r))

GetTaxBoth ==
    /\ Len(calls) + 3 <= MaxCalls
    /\ LET d == Len(calls) + 1
           w1 == getTaxDirect(
                    Enter(World, Invocation("getTaxDirect", Undefined, "", User)),
                    d, items)
           w2 == getTaxRevised(
                    Enter(w1, Invocation("getTaxRevised", Undefined, "", User)),
                    d + 1, items)
       IN Commit(w2)
    /\ UNCHANGED <<items, array, stubbed, phase>>

RespondBoth ==
    /\ \E r \in 1..Len(requests) :
         /\ requests[r].handler = "getTaxDirect"
         /\ requests[r].status = "pending"
         /\ \E o \in Outcomes(requests[r]) :
              Commit(calculateArticle2Callback(
                        Complete(getTaxDirectCallback(Complete(World, r, o), r),
                                 r + 1, o),
                        r + 1))
    /\ UNCHANGED <<items, array, stubbed, phase>>

RefactorCarts == Lists(Items, 1) \cup {ScenarioA, ScenarioRounding}

InitRefactor == \E its \in RefactorCarts : CartSummary(its)

NextRefactor ==
    \/ GetTaxBoth
    \/ RespondBoth

SpecRefactor == InitRefactor /\ [][NextRefactor]_vars

-----------------------------------------------------------------------------
(* Properties.                                                              *)

Invocations(op) == {i \in 1..Len(calls) : calls[i].op = op}
RequestsOf(i) == {r \in 1..Len(requests) : requests[r].owner = i}
Completed(handler) ==
    {r \in 1..Len(requests) :
        requests[r].handler = handler /\ requests[r].status = "completed"}

\* Every quantity is a non-negative integer and every price a non-negative
\* number.
WellFormed(its) ==
    \A k \in 1..Len(its) :
        /\ IsNum(its[k].quantity) /\ its[k].quantity.hi = 0 /\ its[k].quantity.n >= 0
        /\ IsNum(its[k].price) /\ its[k].price.hi >= 0 /\ its[k].price.n >= 0

\* Every price is an integer below 2^53 (the model's sums of such products
\* stay far below 2^53, so that no step of the sum is rounded).
BelowPow53(its) ==
    \A k \in 1..Len(its) : IsNum(its[k].price) => its[k].price.hi = 0

\* The sum of quantity * price over the positions of its, in no fixed order.
RECURSIVE SumOver(_, _)
SumOver(S, its) ==
    IF S = {} THEN 0
    ELSE LET k == CHOOSE x \in S : TRUE
         IN its[k].quantity.n * its[k].price.n + SumOver(S \ {k}, its)

SumOfProducts(its) == SumOver(DOMAIN its, its)

\* The real number that is the sum of quantity * price, unrounded, as
\* hi * 2^53 + n.
RECURSIVE ExactSum(_, _)
ExactSum(S, its) ==
    IF S = {} THEN [hi |-> 0, n |-> 0]
    ELSE LET k == CHOOSE x \in S : TRUE
             rest == ExactSum(S \ {k}, its)
         IN [hi |-> its[k].quantity.n * its[k].price.hi + rest.hi,
             n |-> its[k].quantity.n * its[k].price.n + rest.n]

\* C1, as claimed: for every item list with non-negative integer quantities
\* and non-negative prices, getSubtotal() returns the sum over the items of
\* quantity * price (the double nearest to it, where it is not a double).
C1_Original ==
    \A i \in Invocations("getSubtotal") :
        WellFormed(items) =>
            LET sum == ExactSum(DOMAIN items, items)
            IN calls[i].log = <<Event("return", Double(sum.hi, sum.n))>>

\* C1, amended: for every item list with non-negative integer quantities and
\* non-negative integer prices whose products sum to less than 2^53,
\* getSubtotal() returns the sum over the items of quantity * price.
C1_SubtotalIsSumOfProducts ==
    \A i \in Invocations("getSubtotal") :
        (WellFormed(items) /\ BelowPow53(items)) =>
            calls[i].log = <<Event("return", Num(SumOfProducts(items)))>>

\* C1 witness: the cart (4,50),(2,30),(1,40) has been summed to 300.
C1_Witness ==
    \E i \in Invocations("getSubtotal") :
        /\ items = ScenarioA
        /\ calls[i].log = <<Event("return", Num(300))>>

\* C2: for every state other than exactly 'CA', tax.calculate invokes done
\* once, with {amount: 0}, before it returns, and neither builds nor sends a
\* request.
C2_NonTaxableShortCircuit ==
    \A i \in Invocations("calculate") :
        calls[i].state # "CA" =>
            /\ calls[i].log = <<Event("done", Obj([amount |-> Num(0)])),
                                Event("return", Undefined)>>
            /\ RequestsOf(i) = {}

\* C2 witness: calculate(100, 'NY', done) has run.
C2_Witness ==
    \E i \in Invocations("calculate") :
        /\ calls[i].state = "NY"
        /\ calls[i].subtotal = Num(100)
        /\ calls[i].cb = User
        /\ DoneArgs(calls, i) = <<Obj([amount |-> Num(0)])>>
        /\ RequestsOf(i) = {}

\* C3: for state 'CA', one invocation of tax.calculate issues exactly one
\* outbound request, whose body is {subtotal: <the subtotal argument>}.
C3_TaxableIssuesOneRequest ==
    \A i \in Invocations("calculate") :
        calls[i].state = "CA" =>
            /\ Cardinality(RequestsOf(i)) = 1
            /\ \A r \in RequestsOf(i) :
                 /\ requests[r].json = Obj([subtotal |-> calls[i].subtotal])
                 /\ requests[r].handler = "calculate"

\* C3 witness: calculate(100, 'CA', done) has issued its request, and so has
\* calculate(0, 'CA', done).
C3_Witness ==
    /\ \E i \in Invocations("calculate") :
         /\ calls[i].state = "CA" /\ calls[i].subtotal = Num(100)
         /\ \E r \in RequestsOf(i) : requests[r].json.f.subtotal = Num(100)
    /\ \E i \in Invocations("calculate") :
         /\ calls[i].state = "CA" /\ calls[i].subtotal = Num(0)
         /\ \E r \in RequestsOf(i) : requests[r].json.f.subtotal = Num(0)

\* C4: for state 'CA', done is invoked with the body the transport handed
\* to the callback, unchanged.
C4_TaxDetailsVerbatim ==
    \A r \in Completed("calculate") :
        DoneArgs(calls, requests[r].owner) = <<requests[r].body>>

\* C4 witness: the service replied 200 {amount: 7} and done got {amount: 7}.
C4_Witness ==
    \E r \in Completed("calculate") :
        /\ ~requests[r].error
        /\ requests[r].statusCode = 200
        /\ requests[r].body = Obj([amount |-> Num(7)])
        /\ DoneArgs(calls, requests[r].owner) = <<Obj([amount |-> Num(7)])>>

\* An invocation of tax.calculate is resolved once it has short-circuited or
\* the transport has completed its request, whatever the outcome.
Resolved(i) ==
    \/ calls[i].state # "CA" /\ Has(calls, i, "return")
    \/ \E r \in RequestsOf(i) : requests[r].status = "completed"

\* C5: done of tax.calculate is never invoked more than once, and is invoked
\* exactly once in every invocation that is resolved (success, transport
\* error or non-200 status).
C5_DoneAtMostOnce ==
    \A i \in Invocations("calculate") :
        /\ Len(DoneArgs(calls, i)) <= 1
        /\ Resolved(i) => Len(DoneArgs(calls, i)) = 1

\* C5 witness: a request of tax.calculate ended with a transport error,
\* another with a non-200 status, and each done ran once.
C5_Witness ==
    /\ \E r \in Completed("calculate") :
         requests[r].error /\ Len(DoneArgs(calls, requests[r].owner)) = 1
    /\ \E r \in Completed("calculate") :
         /\ ~requests[r].error /\ requests[r].statusCode # 200
         /\ Len(DoneArgs(calls, requests[r].owner)) = 1

\* C6: getSubtotal() on a cart built from an empty list returns 0, without
\* throwing.
C6_EmptyCartSubtotalZero ==
    \A i \in Invocations("getSubtotal") :
        items = <<>> => calls[i].log = <<Event("return", Num(0))>>

\* C6 witness: getSubtotal() has run on the empty cart.
C6_Witness ==
    \E i \in Invocations("getSubtotal") :
        items = <<>> /\ Has(calls, i, "return")

\* The invocations of tax.calculate (stub or not) made by getTax invocation p.
Delegated(p) == {i \in 1..Len(calls) : calls[i].cb = Inner(p)}

C9_GetTaxPostsSubtotal ==
    \A i \in Invocations("getTax") :
        /\ Cardinality(RequestsOf(i)) = 1
        /\ \A r \in RequestsOf(i) :
             /\ requests[r].method = "POST"
             /\ requests[r].url = ExactorUrl
             /\ requests[r].json = Obj([subtotal |-> getSubtotal(items).value])

\* C9 witness: getTax has posted {subtotal: 0} on the empty cart.
C9_Witness ==
    \E i \in Invocations("getTax") :
        /\ items = <<>>
        /\ \E r \in RequestsOf(i) : requests[r].json = Obj([subtotal |-> Num(0)])

\* C10: getTax(done), direct-HTTP version: when the request ends with a
\* transport error or a status other than 200, done is never invoked and no
\* error reaches the caller.
C10_GetTaxSilentOnFailure ==
    \A r \in Completed("getTax") :
        (requests[r].error \/ requests[r].statusCode # 200) =>
            /\ DoneArgs(calls, requests[r].owner) = <<>>
            /\ ~Has(calls, requests[r].owner, "throw")

\* C10 witness: one request of getTax ended with a transport error and one
\* with status 500, and neither done has run.
C10_Witness ==
    /\ \E r \in Completed("getTax") :
         requests[r].error /\ DoneArgs(calls, requests[r].owner) = <<>>
    /\ \E r \in Completed("getTax") :
         /\ ~requests[r].error /\ requests[r].statusCode = 500
         /\ DoneArgs(calls, requests[r].owner) = <<>>

\* A response body that is not tax details: no object with an amount.
Malformed(body) == ~(IsObj(body) /\ "amount" \in DOMAIN body.f)

C12_AmountAlwaysPresent ==
    \A i \in Invocations("calculate") :
        \A k \in 1..Len(DoneArgs(calls, i)) :
            LET v == DoneArgs(calls, i)[k]
            IN /\ IsObj(v)
               /\ "amount" \in DOMAIN v.f
               /\ RequestsOf(i) = {} => v.f.amount = Num(0)

\* An item list with every missing quantity or price replaced by 0.
ZeroFilled(its) ==
    [k \in 1..Len(its) |->
        [id |-> its[k].id,
         quantity |-> IF its[k].quantity = Undefined THEN Num(0) ELSE its[k].quantity,
         price |-> IF its[k].price = Undefined THEN Num(0) ELSE its[k].price]]

\* C13: getSubtotal() counts an item whose quantity or price is missing or
\* zero as 0, and does not throw on it.
C13_MissingContributesZero ==
    \A i \in Invocations("getSubtotal") :
        calls[i].log = <<Event("return", getSubtotal(ZeroFilled(items)).value)>>

\* The requests of invocation i that the transport has completed.
CompletedOf(i) == {r \in RequestsOf(i) : requests[r].status = "completed"}

\* C14: invocations of tax.calculate are independent: whatever the other
\* invocations do and in whatever order responses arrive, a 'CA' invocation
\* gets nothing before its own request completes and then the body of its
\* own response, and a non-CA invocation gets {amount: 0}.
C14_InvocationsIndependent ==
    \A i \in Invocations("calculate") :
        IF calls[i].state # "CA"
        THEN DoneArgs(calls, i) = <<Obj([amount |-> Num(0)])>>
        ELSE IF CompletedOf(i) = {}
        THEN DoneArgs(calls, i) = <<>>
        ELSE \A r \in CompletedOf(i) : DoneArgs(calls, i) = <<requests[r].body>>

\* C14 witness: calculate(0, 'CA'), calculate(100, 'NY'), calculate(100, 'CA')
\* were called in this order; the response to the last one has arrived
\* first, {amount: 10}, and only its callback has run with it.
C14_Witness ==
    /\ Len(calls) = 3
    /\ \A i \in 1..3 : calls[i].op = "calculate" /\ calls[i].cb = User
    /\ calls[1].state = "CA" /\ calls[2].state = "NY" /\ calls[3].state = "CA"
    /\ calls[1].subtotal = Num(0) /\ calls[3].subtotal = Num(100)
    /\ CompletedOf(1) = {}
    /\ DoneArgs(calls, 1) = <<>>
    /\ DoneArgs(calls, 2) = <<Obj([amount |-> Num(0)])>>
    /\ CompletedOf(3) # {}
    /\ DoneArgs(calls, 3) = <<Obj([amount |-> Num(10)])>>

\* A step in which getSubtotal() is called and returns.
GetSubtotalStep ==
    /\ Len(calls') = Len(calls) + 1
    /\ calls'[Len(calls')].op = "getSubtotal"

\* C15: getSubtotal() has no side effects: the call leaves the stored item
\* list as it was (length, order, every quantity and price), issues no
\* request, and touches no other invocation.
C15_GetSubtotalHasNoSideEffects ==
    [][GetSubtotalStep =>
          /\ items' = items
          /\ requests' = requests
          /\ array' = array
          /\ stubbed' = stubbed
          /\ SubSeq(calls', 1, Len(calls)) = calls]_vars

\* C15 witness: getSubtotal() has returned 300 after a getTax whose request
\* is still the only one, and the cart is as constructed.
C15_Witness ==
    /\ items = ScenarioA
    /\ Len(calls) = 2
    /\ calls[1].op = "getTax"
    /\ calls[2].op = "getSubtotal"
    /\ calls[2].log = <<Event("return", Num(300))>>
    /\ Len(requests) = 1
    /\ requests[1].status = "pending"

\* The rearrangements of an item list.
Rearrangements(its) ==
    {[k \in 1..Len(its) |-> its[f[k]]] :
        f \in {g \in [1..Len(its) -> 1..Len(its)] :
                 \A a, b \in 1..Len(its) : g[a] = g[b] => a = b}}

\* C16, as claimed: for every item list and every permutation of it,
\* getSubtotal() returns the same value.
C16_Original ==
    \A i \in Invocations("getSubtotal") :
        \A p \in Rearrangements(items) :
            calls[i].log = <<Event("return", getSubtotal(p).value)>>

\* C16, amended: for every item list whose prices are integers and whose
\* products sum to less than 2^53 (or that has a missing field, the
\* subtotal then being NaN in every order), every permutation of it has the
\* same subtotal.
C16_OrderIrrelevantWhenExact ==
    \A i \in Invocations("getSubtotal") :
        BelowPow53(items) =>
            \A p \in Rearrangements(items) :
                calls[i].log = <<Event("return", getSubtotal(p).value)>>

\* C16 witness: the 300 cart has been summed, and its reversal sums to 300.
C16_Witness ==
    \E i \in Invocations("getSubtotal") :
        /\ items = ScenarioA
        /\ calls[i].log = <<Event("return", Num(300))>>
        /\ <<items[3], items[2], items[1]>> \in Rearrangements(items)
        /\ getSubtotal(<<items[3], items[2], items[1]>>).value = Num(300)

\* The item list with the ids replaced by those of ids.
Relabel(its, ids) ==
    [k \in 1..Len(its) |-> [its[k] EXCEPT !.id = ids[k]]]

\* C17: items are not deduplicated by id and the id of an item never
\* influences the subtotal: whatever ids the items carry, shared or not, the
\* subtotal is the same, and for items sharing an id (integers, exact sums)
\* it is the sum of every item's own quantity * price.
C17_IdsIrrelevant ==
    \A i \in Invocations("getSubtotal") :
        /\ \A ids \in [1..Len(items) -> ItemIds \cup {3}] :
             calls[i].log = <<Event("return", getSubtotal(Relabel(items, ids)).value)>>
        /\ (WellFormed(items) /\ BelowPow53(items)
              /\ \E a, b \in 1..Len(items) : a # b /\ items[a].id = items[b].id) =>
             calls[i].log = <<Event("return", Num(SumOfProducts(items)))>>

\* C17 witness: two items with id 1, 1 * 30 and 2 * 30, summed to 90.
C17_Witness ==
    \E i \in Invocations("getSubtotal") :
        /\ items = << [id |-> 1, quantity |-> Num(1), price |-> Num(30)],
                      [id |-> 1, quantity |-> Num(2), price |-> Num(30)] >>
        /\ calls[i].log = <<Event("return", Num(90))>>

\* The kinds of the events of invocation i, in order.
Kinds(i) == [k \in 1..Len(calls[i].log) |-> calls[i].log[k].e]

IsPrefix(s, t) == Len(s) <= Len(t) /\ s = SubSeq(t, 1, Len(s))

\* C18: on the non-taxable path done runs before calculate returns; on the
\* 'CA' path calculate issues the request and returns, and done runs only
\* after the response (or error) of that request has arrived.
C18_CallbackOrder ==
    \A i \in Invocations("calculate") :
        IF calls[i].state # "CA"
        THEN Kinds(i) = <<"done", "return">>
        ELSE /\ Len(Kinds(i)) >= 2
             /\ IsPrefix(Kinds(i), <<"request", "return", "response", "done">>)

\* C18 witness: a 'CA' invocation has gone through request, return,
\* response and done, next to an 'NY' one that called back before returning.
C18_Witness ==
    /\ \E i \in Invocations("calculate") :
         /\ calls[i].state = "CA"
         /\ Kinds(i) = <<"request", "return", "response", "done">>
    /\ \E i \in Invocations("calculate") :
         /\ calls[i].state = "NY"
         /\ Kinds(i) = <<"done", "return">>

\* The number of requests invocation i has handed to request.post.
RequestCount(i) ==
    Len(SelectSeq(calls[i].log, LAMBDA ev : ev.e = "request"))

\* C19: no retry: one invocation of tax.calculate or of getTax (direct-HTTP
\* version) never issues more than one request, whatever the outcome of the
\* request.
C19_NoRetry ==
    \A i \in Invocations("calculate") \cup Invocations("getTax") :
        /\ Cardinality(RequestsOf(i)) <= 1
        /\ RequestCount(i) <= 1

\* C19 witness: a request of tax.calculate ended with a transport error and
\* a request of getTax with status 500, and each owner still has issued one
\* request only.
C19_Witness ==
    /\ \E r \in Completed("calculate") :
         requests[r].error /\ RequestCount(requests[r].owner) = 1
    /\ \E r \in Completed("getTax") :
         /\ requests[r].statusCode = 500
         /\ RequestCount(requests[r].owner) = 1
         /\ Cardinality(RequestsOf(requests[r].owner)) = 1

\* C20: every invocation of tax.calculate eventually invokes its completion
\* callback: at once for a non-CA state, and for 'CA' once the (fair)
\* transport has completed the request, with a response or with an error.
C20_CalculateEventuallyCallsBack ==
    /\ [](\A i \in Invocations("calculate") :
            calls[i].state # "CA" => Len(DoneArgs(calls, i)) = 1)
    /\ \A i \in 1..MaxCalls :
         (i <= Len(calls) /\ calls[i].op = "calculate")
            ~> (i <= Len(calls) /\ Len(DoneArgs(calls, i)) = 1)

\* C20 witness: the request of a 'CA' invocation has ended with a transport
\* error, and its callback has run.
C20_Witness ==
    \E i \in Invocations("calculate") :
        /\ calls[i].state = "CA"
        /\ \E r \in CompletedOf(i) : requests[r].error
        /\ Kinds(i) = <<"request", "return", "response", "done">>

\* The invocations of the tax module's own calculate (not the stub) made by
\* getTax invocation p.
DelegatedReal(p) == {i \in Delegated(p) : calls[i].op = "calculate"}

Observed(i) ==
    SelectSeq(calls[i].log, LAMBDA ev : ev.e \in {"done", "throw", "return"})

\* The request issued on behalf of invocation i, as the tax service sees it.
Outbound(i) ==
    {[url |-> requests[r].url, method |-> requests[r].method,
      json |-> requests[r].json, status |-> requests[r].status,
      error |-> requests[r].error, statusCode |-> requests[r].statusCode,
      body |-> requests[r].body] :
        r \in {q \in 1..Len(requests) :
                 requests[q].owner = i \/ calls[requests[q].owner].cb = InnerTax(i)}}

C23_StubbedExactlyDuringTests ==
    /\ phase \in {"idle", "test"}
    /\ phase = "test" => stubbed
    /\ phase = "idle" => ~stubbed

\* C23 witness: a test that called getTax('CA', done) has ended, afterEach
\* has restored tax.calculate, and the next test has begun with the stub
\* installed again.
C23_Witness ==
    /\ phase = "test"
    /\ stubbed
    /\ \E p \in Invocations("getTaxPart1") :
         /\ calls[p].state = "CA"
         /\ \E i \in Delegated(p) : calls[i].op = "stub" /\ Has(calls, i, "done")
    /\ \E i \in Invocations("calculate") : calls[i].cb = User

C25_CartFixedByOwnOperations ==
    /\ [][items' = items /\ array' = array]_vars
    /\ [](items = array)
    /\ [](\A i, j \in Invocations("getSubtotal") : calls[i].log = calls[j].log)

\* C25 witness: on the 300 cart, getSubtotal() returned 300, getTax posted
\* its request and got its response, and getSubtotal() returned 300 again.
C25_Witness ==
    /\ items = ScenarioA
    /\ Len(calls) = 3
    /\ calls[1].op = "getSubtotal" /\ calls[1].log = <<Event("return", Num(300))>>
    /\ calls[2].op = "getTax" /\ DoneArgs(calls, 2) = <<Num(30)>>
    /\ calls[3].op = "getSubtotal" /\ calls[3].log = <<Event("return", Num(300))>>

\* A step in which getTax(done) is called and returns.
GetTaxStep ==
    /\ Len(calls') = Len(calls) + 1
    /\ calls'[Len(calls')].op = "getTax"

\* C26: the constructor keeps the caller's array by reference: whatever the
\* caller has added to, removed from or changed in the array, the cart's
\* items are the array's, the next getSubtotal() returns the subtotal of the
\* array as it is then, the next getTax() sends that subtotal, and a request
\* that was already issued keeps the subtotal it was issued with.
C26_ArrayKeptByReference ==
    /\ [](items = array)
    /\ [][GetSubtotalStep =>
            calls'[Len(calls')].log = <<Event("return", getSubtotal(array).value)>>]_vars
    /\ [][GetTaxStep =>
            /\ Len(requests') = Len(requests) + 1
            /\ requests'[Len(requests')].json =
                  Obj([subtotal |-> getSubtotal(array).value])]_vars
    /\ [][SubSeq(requests', 1, Len(requests)) = requests]_vars

\* C26 witness: getTax() posted {subtotal: 0} on the empty array; the caller
\* then pushed an item of 1 * 40; getSubtotal() returned 40 and a second
\* getTax() posted {subtotal: 40}, the first request still holding 0.
C26_Witness ==
    /\ array = <<PushedItem>>
    /\ Len(calls) = 3
    /\ calls[1].op = "getTax"
    /\ calls[2].op = "getSubtotal" /\ calls[2].log = <<Event("return", Num(40))>>
    /\ calls[3].op = "getTax"
    /\ Len(requests) = 2
    /\ requests[1].json = Obj([subtotal |-> Num(0)])
    /\ requests[2].json = Obj([subtotal |-> Num(40)])

\* C27: getTax(state, done) of part 1 composed with the tax module's own
\* calculate: when the 'CA' request ends with a transport error, calculate
\* invokes its callback once with undefined, the callback of getTax throws
\* a TypeError on reading amount from it, and done is never invoked.
C27_TransportErrorBreaksInnerCallback ==
    \A p \in Invocations("getTaxPart1") :
        \A i \in DelegatedReal(p) :
            \A r \in RequestsOf(i) :
                (requests[r].status = "completed" /\ requests[r].error) =>
                    /\ requests[r].body = Undefined
                    /\ DoneArgs(calls, i) = <<Undefined>>
                    /\ \E k \in 1..Len(calls[p].log) :
                         calls[p].log[k] = Event("throw", TypeError)
                    /\ DoneArgs(calls, p) = <<>>

\* C27 witness: on the 300 cart, getTax('CA', done) with tax.calculate not
\* stubbed; the request {subtotal: 300} ended with a transport error and
\* the callback of getTax threw.
C27_Witness ==
    /\ items = ScenarioA
    /\ \E p \in Invocations("getTaxPart1") :
         /\ calls[p].state = "CA"
         /\ Has(calls, p, "throw")
         /\ DoneArgs(calls, p) = <<>>
         /\ \E i \in DelegatedReal(p) : \E r \in RequestsOf(i) :
              /\ requests[r].error
              /\ requests[r].json = Obj([subtotal |-> Num(300)])

====
